---- MODULE Spec2Model ----
(***************************************************************************)
(* Model of fix_file_permissions.py: the maintenance pipeline run by       *)
(* main() over the 'cogs' plugin directory.                                *)
(*                                                                         *)
(* Text (file names and file contents) is a sequence of tokens: a token    *)
(* stands for the characters it spells, so that substring tests, split,    *)
(* strip, read(500) and the '.py' suffix are computed on the text and not  *)
(* assumed.  Permission modes are the POSIX mode bits as integers.  The    *)
(* process runs as an unprivileged user ("me") on a POSIX filesystem.      *)
(***************************************************************************)
EXTENDS Integers, Sequences, FiniteSets, TLC

VARIABLES
    cogs,    \* the entry at <script dir>/cogs: Absent, a file or a directory tree
    bak,     \* the entry at <script dir>/cogs.bak
    log,     \* the records logged by the current run (logger.error / warning)
    pc,      \* the next step of main(), "done" or "crashed"
    crash,   \* the call whose exception left main() ("" while none did)
    run,     \* 1 for the first invocation of the script, 2 for the second
    umask,   \* the process's file-creation mask
    start,   \* the filesystem the first run started from
    prev     \* the filesystem before the last step that was executed

vars == <<cogs, bak, log, pc, crash, run, umask, start, prev>>

----------------------------------------------------------------------------
(* Bounds of the model.                                                    *)

\* The largest number of entries the plugin directory initially holds.
MaxInitEntries == 2

----------------------------------------------------------------------------
(* Text.                                                                   *)

\* A comment of 500 characters: it fills what f.read(500) returns.
Pad == "#pad500"
\* A byte that is not valid UTF-8.
BadByte == "<0xff>"

ReadLimit == 500

TokLen(t) == IF t = Pad THEN 500 ELSE IF t = BadByte THEN 1 ELSE Len(t)

\* pat in s
Contains(s, pat) ==
    \E i \in 1..(Len(s) - Len(pat) + 1) : SubSeq(s, i, i + Len(pat) - 1) = pat

RECURSIVE CountOf(_, _)
\* s.count(pat) for a pattern that cannot overlap itself
CountOf(s, pat) ==
    IF Len(s) < Len(pat) THEN 0
    ELSE IF SubSeq(s, 1, Len(pat)) = pat
         THEN 1 + CountOf(SubSeq(s, Len(pat) + 1, Len(s)), pat)
         ELSE CountOf(Tail(s), pat)

IsPrefix(s, t) == Len(s) <= Len(t) /\ SubSeq(t, 1, Len(s)) = s

RECURSIVE ReadChars(_, _)
\* f.read(n): the first n characters; a token cut by the limit spells none of
\* the markers searched for, so the cut token is dropped.
ReadChars(s, n) ==
    IF s = <<>> \/ TokLen(Head(s)) > n THEN <<>>
    ELSE <<Head(s)>> \o ReadChars(Tail(s), n - TokLen(Head(s)))

\* open(..., encoding='utf-8') then read(): fails on a byte that is not UTF-8
Decodable(s) == \A i \in 1..Len(s) : s[i] # BadByte

\* open(..., encoding='utf-8', errors='ignore'): undecodable bytes are dropped
DecodeIgnore(s) == SelectSeq(s, LAMBDA t : t # BadByte)

RECURSIVE Split(_, _)
\* s.split(sep) for a one-token separator: a sequence of Len >= 1 of pieces
Split(s, sep) ==
    IF \A i \in 1..Len(s) : s[i] # sep THEN <<s>>
    ELSE LET i == CHOOSE k \in 1..Len(s) : s[k] = sep /\ \A j \in 1..(k - 1) : s[j] # sep
         IN <<SubSeq(s, 1, i - 1)>> \o Split(SubSeq(s, i + 1, Len(s)), sep)

IsSpace(t) == t \in {" ", "    ", "\n"}

RECURSIVE LStrip(_)
LStrip(s) == IF s # <<>> /\ IsSpace(Head(s)) THEN LStrip(Tail(s)) ELSE s

RECURSIVE RStrip(_)
RStrip(s) ==
    IF s # <<>> /\ IsSpace(s[Len(s)]) THEN RStrip(SubSeq(s, 1, Len(s) - 1)) ELSE s

\* s.strip()
Strip(s) == RStrip(LStrip(s))

\* The markers the code searches for.
MImport == <<"import">>
MDef == <<"def">>
MClass == <<"class">>
MCog == <<"commands.Cog">>
MCogBase == <<"(", "commands.Cog", ")">>
MSetup == <<"async", " ", "def", " ", "setup">>


\* f"\n\nasync def setup(bot):\n    await bot.add_cog({cog_name}(bot))\n"
SetupBlock(cog_name) ==
    <<"\n", "\n">> \o MSetup \o <<"(", "bot", ")", ":", "\n", "    ", "await", " ",
      "bot.add_cog", "(">> \o cog_name \o <<"(", "bot", ")", ")", "\n">>

\* "# This file makes the directory a Python package\n"
InitPayload == <<"#", " ", "This file makes the directory a Python package", "\n">>

\* The module text written to user_commands.py, cut to the lines that carry a
\* marker: the import, the class line, a listener decorator, the entry point.
\* The three payloads are the texts between the outer triple quotes; as the
\* file stands, the docstring quotes inside a payload end its Python literal
\* early (a SyntaxError at line 146), which the model does not follow.
UserPayload ==
    <<"import", " ", "discord", "\n",
      "class", " ", "UserCommands", "(", "commands.Cog", ")", ":", "\n",
      "    ", "@", "commands.Cog", ".", "listener", "(", ")", "\n">>
    \o Tail(SetupBlock(<<"UserCommands">>))

\* The module text written to admin_commands.py, cut in the same way.
AdminPayload ==
    <<"import", " ", "discord", "\n",
      "class", " ", "AdminCommands", "(", "commands.Cog", ")", ":", "\n",
      "    ", "def", " ", "__init__", "(", "self", ")", ":", "\n">>
    \o Tail(SetupBlock(<<"AdminCommands">>))

\* The module text written to example_commands.py, cut in the same way.
SamplePayload ==
    <<"import", " ", "discord", "\n",
      "class", " ", "ExampleCommands", "(", "commands.Cog", ")", ":", "\n",
      "    ", "def", " ", "__init__", "(", "self", ")", ":", "\n">>
    \o Tail(SetupBlock(<<"ExampleCommands">>))

----------------------------------------------------------------------------
(* File names.                                                             *)

InitPy == <<"__", "init__", ".py">>
UserPy == <<"user_commands", ".py">>
AdminPy == <<"admin_commands", ".py">>
SamplePy == <<"example_commands", ".py">>

\* item.endswith('.py')
EndsWithPy(n) == n # <<>> /\ n[Len(n)] = ".py"
\* item.startswith('__')
StartsWithDunder(n) == n # <<>> /\ Head(n) = "__"
\* item_path + '.py'
AddPy(n) == n \o <<".py">>

----------------------------------------------------------------------------
(* Permission modes and the filesystem.                                    *)

\* 0o755
DirMode == 493
\* 0o644
FileMode == 420

HasBit(m, b) == (m \div b) % 2 = 1

RECURSIVE AndNot(_, _, _)
\* m & ~u over the nine permission bits, from bit b upwards
AndNot(m, u, b) ==
    IF b > 256 THEN 0
    ELSE (IF HasBit(m, b) /\ ~HasBit(u, b) THEN b ELSE 0) + AndNot(m, u, 2 * b)

\* The mode open(path, 'w') gives a file it creates: 0o666 & ~umask.
CreateFileMode(um) == AndNot(438, um, 1)
\* The mode os.makedirs gives a directory it creates: 0o777 & ~umask.
MakedirsMode(um) == AndNot(511, um, 1)

Absent == [kind |-> "absent", mode |-> 0, owner |-> "me", content |-> <<>>, kids |-> <<>>]
File(mode, owner, content) ==
    [kind |-> "file", mode |-> mode, owner |-> owner, content |-> content, kids |-> <<>>]
Dir(mode, owner, kids) ==
    [kind |-> "dir", mode |-> mode, owner |-> owner, content |-> <<>>, kids |-> kids]

\* What the kernel lets the unprivileged caller do with an entry: the owner
\* bits decide for its own entries, the 'other' bits for a foreign one.
CanRead(e) == IF e.owner = "me" THEN HasBit(e.mode, 256) ELSE HasBit(e.mode, 4)
CanWrite(e) == IF e.owner = "me" THEN HasBit(e.mode, 128) ELSE HasBit(e.mode, 2)
\* os.chmod raises PermissionError on an entry the caller does not own.
ChmodAllowed(e) == e.owner = "me"

Exists(d, n) == n \in DOMAIN d.kids
Put(kids, n, e) == [m \in (DOMAIN kids) \cup {n} |-> IF m = n THEN e ELSE kids[m]]
Remove(kids, n) == [m \in (DOMAIN kids) \ {n} |-> kids[m]]

LogRec(lvl, msg, item) == [lvl |-> lvl, msg |-> msg, item |-> item]

----------------------------------------------------------------------------
(* ensure_cogs_directory                                                   *)

\* os.makedirs(cogs_dir, exist_ok=True) on a path that holds nothing
NewDir(um) == Dir(MakedirsMode(um), "me", <<>>)

\* Mutant: the file at the path is removed instead of renamed to cogs.bak.
EnsureCogsDirectoryRemovesFile(c, b, um) ==
    IF c.kind = "dir" THEN [cogs |-> c, bak |-> b, log |-> {}, crash |-> ""]
    ELSE [cogs |-> NewDir(um), bak |-> b, log |-> {}, crash |-> ""]

\* The paths cogs and cogs.bak after ensure_cogs_directory, or the call that
\* raised.  os.rename replaces a file at the target and raises on a directory.
EnsureCogsDirectoryOf(c, b, um) ==
    LET c1 == IF c.kind = "absent" THEN NewDir(um) ELSE c
    IN  IF c1.kind = "dir"
        THEN [cogs |-> c1, bak |-> b, log |-> {}, crash |-> ""]
        ELSE LET lg == {LogRec("error", "not a directory", <<"cogs">>)}
             IN  IF b.kind = "dir"
                 THEN [cogs |-> c1, bak |-> b, log |-> lg, crash |-> "rename cogs.bak"]
                 ELSE [cogs |-> NewDir(um), bak |-> c1, log |-> lg, crash |-> ""]

----------------------------------------------------------------------------
(* ensure_python_files                                                     *)

\* 'import' in content and ('def' in content or 'class' in content), on the
\* first 500 characters of the text decoded with errors='ignore'
LooksLikePython(raw) ==
    LET content == ReadChars(DecodeIgnore(raw), ReadLimit)
    IN  Contains(content, MImport) /\ (Contains(content, MDef) \/ Contains(content, MClass))

\* os.rename(item_path, new_path) inside directory d: raises when d is not
\* writable or when new_path is a directory; replaces a file at new_path.
RenameFails(d, item, new) ==
    \/ ~CanWrite(d)
    \/ (Exists(d, new) /\ d.kids[new].kind = "dir")

\* Mutant: the file is copied to the new name and the old name stays.
RenameInKeepsOld(d, item, new) ==
    [d EXCEPT !.kids = Put(d.kids, new, d.kids[item])]

RenameIn(d, item, new) ==
    [d EXCEPT !.kids = Put(Remove(d.kids, item), new, d.kids[item])]

\* One iteration of the loop over os.listdir(directory); r is the state of
\* the loop: the directory, the log, the call that raised out of the loop.
ClassifyItem(r, item) ==
    LET d == r.dir
    IN  IF ~Exists(d, item) \/ d.kids[item].kind # "file" \/ StartsWithDunder(item)
        THEN r
        ELSE IF EndsWithPy(item) THEN r
        ELSE IF ~CanRead(d.kids[item]) THEN [r EXCEPT !.crash = "open"]
        ELSE IF ~LooksLikePython(d.kids[item].content) THEN r
        ELSE IF RenameFails(d, item, AddPy(item))
             THEN [r EXCEPT !.log = @ \cup {LogRec("error", "Error reading file", item)}]
             ELSE [r EXCEPT !.dir = RenameIn(d, item, AddPy(item))]

RECURSIVE ClassifyLoop(_, _)
\* Every outcome of the loop over the listing todo, which os.listdir returns
\* in arbitrary order; an exception leaves the loop.
ClassifyLoop(r, todo) ==
    IF todo = {} \/ r.crash # "" THEN {r}
    ELSE UNION {ClassifyLoop(ClassifyItem(r, item), todo \ {item}) : item \in todo}

\* Every outcome of ensure_python_files(directory)
EnsurePythonFilesOf(d, um) ==
    LET r0 == [dir |-> d, log |-> {}, crash |-> ""]
        r1 == IF Exists(d, InitPy) THEN r0
              ELSE IF ~CanWrite(d) THEN [r0 EXCEPT !.crash = "write __init__.py"]
              ELSE [r0 EXCEPT !.dir.kids = Put(d.kids, InitPy,
                                               File(CreateFileMode(um), "me", InitPayload))]
    IN  IF r1.crash # "" THEN {r1}
        ELSE IF ~CanRead(r1.dir) THEN {[r1 EXCEPT !.crash = "listdir"]}
        ELSE ClassifyLoop(r1, DOMAIN r1.dir.kids)

----------------------------------------------------------------------------
(* fix_permissions                                                         *)

RECURSIVE FixPermissionsOf(_, _)
RECURSIVE FixLoop(_, _)

\* One iteration of the loop of fix_permissions; r is the state of the loop:
\* the directory, the log, whether an exception has left the loop.
FixItem(r, item) ==
    LET e == r.dir.kids[item]
    IN  IF e.kind = "file"
        THEN IF ChmodAllowed(e)
             THEN {[r EXCEPT !.dir.kids[item].mode = FileMode]}
             ELSE {[r EXCEPT !.log = @ \cup {LogRec("error", "Error listing directory", item)},
                             !.stop = TRUE]}
        ELSE IF e.kind = "dir"
        THEN {[r EXCEPT !.dir.kids[item] = sub.dir, !.log = @ \cup sub.log] :
                 sub \in FixPermissionsOf(e, item)}
        ELSE {r}

FixLoop(r, todo) ==
    IF todo = {} \/ r.stop THEN {r}
    ELSE UNION {UNION {FixLoop(r2, todo \ {item}) : r2 \in FixItem(r, item)} : item \in todo}

\* Every outcome of fix_permissions(directory) on the directory entry d
FixPermissionsOf(d, name) ==
    LET r0 == IF ChmodAllowed(d)
              THEN [dir |-> [d EXCEPT !.mode = DirMode], log |-> {}, stop |-> FALSE]
              ELSE [dir |-> d, stop |-> FALSE,
                    log |-> {LogRec("error", "Failed to change directory permissions", name)}]
    IN  IF ~CanRead(r0.dir)
        THEN {[r0 EXCEPT !.log = @ \cup {LogRec("error", "Error listing directory", name)}]}
        ELSE {[r EXCEPT !.stop = FALSE] : r \in FixLoop(r0, DOMAIN r0.dir.kids)}

----------------------------------------------------------------------------
(* copy_existing_cogs                                                      *)

\* Mutant: the payload is written whether or not the file exists.
WriteAlways(r, name, payload, um) ==
    IF r.crash # "" THEN r
    ELSE [r EXCEPT !.dir.kids = Put(r.dir.kids, name, File(CreateFileMode(um), "me", payload))]

\* if not os.path.exists(path): with open(path, 'w') as f: f.write(payload)
WriteIfAbsent(r, name, payload, um) ==
    IF r.crash # "" \/ Exists(r.dir, name) THEN r
    ELSE IF ~CanWrite(r.dir) THEN [r EXCEPT !.crash = "write default"]
    ELSE [r EXCEPT !.dir.kids = Put(r.dir.kids, name, File(CreateFileMode(um), "me", payload))]

CopyExistingCogsOf(d, um) ==
    WriteIfAbsent(WriteIfAbsent([dir |-> d, log |-> {}, crash |-> ""],
                                UserPy, UserPayload, um),
                  AdminPy, AdminPayload, um)

----------------------------------------------------------------------------
(* verify_cog_files                                                        *)

\* Mutant: the piece after the last 'class' of the line is taken, not the
\* piece after the first.
NameOnLineLastPiece(line) ==
    Strip(Split(Split(line, "class")[Len(Split(line, "class"))], "(")[1])

\* The pieces of line.split('class')[1].split('(')[0].strip()
NameOnLine(line) == Strip(Split(Split(line, "class")[2], "(")[1])

IsClassLine(line) == Contains(line, MClass) /\ Contains(line, MCogBase)

\* cog_name after the loop over content.split('\n'): the name on the first
\* line with 'class' and '(commands.Cog)', <<>> for None
CogName(content) ==
    LET lines == Split(content, "\n")
    IN  IF \E i \in 1..Len(lines) : IsClassLine(lines[i])
        THEN NameOnLine(lines[CHOOSE i \in 1..Len(lines) :
                                 /\ IsClassLine(lines[i])
                                 /\ \A j \in 1..(i - 1) : ~IsClassLine(lines[j])])
        ELSE <<>>

\* Mutant: the file is opened with 'w', which truncates it.
AppendSetupTruncates(e, cog_name) == [e EXCEPT !.content = SetupBlock(cog_name)]

\* The entry after f.write of the setup function with open(item_path, 'a')
AppendSetup(e, cog_name) == [e EXCEPT !.content = @ \o SetupBlock(cog_name)]

\* The body of the loop of verify_cog_files for the entry e named item: the
\* entry afterwards and what was logged.
LintFile(item, e) ==
    IF ~(EndsWithPy(item) /\ ~StartsWithDunder(item)) THEN [e |-> e, log |-> {}]
    ELSE IF e.kind # "file" \/ ~CanRead(e) \/ ~Decodable(e.content)
    THEN [e |-> e, log |-> {LogRec("error", "Error processing file", item)}]
    ELSE LET content == e.content
             has_cog_class == Contains(content, MCog)
             has_setup_func == Contains(content, MSetup)
             cog_name == CogName(content)
             w1 == IF ~has_cog_class
                   THEN {LogRec("warning", "missing Cog class definition", item)} ELSE {}
             w2 == IF ~has_setup_func
                   THEN {LogRec("warning", "missing setup function", item)} ELSE {}
         IN  IF ~has_setup_func /\ has_cog_class /\ cog_name # <<>>
             THEN IF ~CanWrite(e)
                  THEN [e |-> e,
                        log |-> w1 \cup w2 \cup {LogRec("error", "Error processing file", item)}]
                  ELSE [e |-> AppendSetup(e, cog_name), log |-> w1 \cup w2]
             ELSE [e |-> e, log |-> w1 \cup w2]

\* verify_cog_files(directory).  An iteration reads and writes its own item
\* only and catches every exception, so the outcome is the same for every
\* order of the listing.
VerifyCogFilesOf(d) ==
    IF ~CanRead(d) THEN [dir |-> d, log |-> {}, crash |-> "listdir"]
    ELSE [dir |-> [d EXCEPT !.kids = [n \in DOMAIN d.kids |-> LintFile(n, d.kids[n]).e]],
          log |-> UNION {LintFile(n, d.kids[n]).log : n \in DOMAIN d.kids},
          crash |-> ""]

----------------------------------------------------------------------------
(* create_sample_cog                                                       *)

\* [f for f in os.listdir(directory) if f.endswith('.py') and not f.startswith('__')]
CogFiles(d) == {f \in DOMAIN d.kids : EndsWithPy(f) /\ ~StartsWithDunder(f)}

CreateSampleCogOf(d, um) ==
    IF ~CanRead(d) THEN [dir |-> d, log |-> {}, crash |-> "listdir"]
    ELSE IF CogFiles(d) # {} THEN [dir |-> d, log |-> {}, crash |-> ""]
    ELSE IF ~CanWrite(d) THEN [dir |-> d, log |-> {}, crash |-> "write sample"]
    ELSE [dir |-> [d EXCEPT !.kids = Put(d.kids, SamplePy,
                                         File(CreateFileMode(um), "me", SamplePayload))],
          log |-> {}, crash |-> ""]

----------------------------------------------------------------------------
(* The filesystems a run may start from.                                   *)

\* "import os\ndef run():\n    pass"
PyShort == <<"import", " ", "os", "\n", "def", " ", "run", "(", ")", ":", "\n", "    ", "pass">>
\* The same module below a 500-character comment
PyLate == <<Pad, "\n">> \o PyShort
TextOnly == <<"notes", " ", "for", " ", "admins", "\n">>
\* "import discord\nclass Foo(commands.Cog):  # a class\n    pass\n"
CogNoSetup ==
    <<"import", " ", "discord", "\n", "class", " ", "Foo", "(", "commands.Cog", ")", ":",
      " ", "#", " ", "a", " ", "class", "\n", "    ", "pass", "\n">>
CogWithSetup == <<"#", " ", "v2", "\n">> \o CogNoSetup \o SetupBlock(<<"Foo">>)
\* A comment "# subclass(commands.Cog)" above the class line
CogEmptyName == <<"#", " ", "sub", "class", "(", "commands.Cog", ")", "\n">> \o CogNoSetup
\* Only "@commands.Cog.listener()": no line declares a class
CogListener ==
    <<"import", " ", "discord", "\n", "@", "commands.Cog", ".", "listener", "(", ")", "\n",
      "def", " ", "f", "(", ")", ":", "\n">>
CogBadByte == <<"#", " ", BadByte, "\n">> \o CogNoSetup

NameA == <<"a">>
NameSub == <<"sub">>
NameDunder == <<"__", "m">>
Kid1 == <<"f">>
Kid2 == <<"g">>

SubKids(e1, e2) == [n \in {Kid1, Kid2} |-> IF n = Kid1 THEN e1 ELSE e2]

\* The entries a name may initially stand for.
Variants(n) ==
    IF n = InitPy THEN {File(384, "me", InitPayload)}
    ELSE IF n = NameA
    THEN {File(420, "me", PyShort), File(420, "me", PyLate), File(384, "me", CogNoSetup),
          File(0, "me", PyShort), File(388, "other", TextOnly)}
    ELSE IF n = AddPy(NameA)
    THEN {File(420, "me", CogWithSetup), File(438, "me", CogNoSetup),
          File(420, "me", CogEmptyName), File(420, "me", CogBadByte),
          File(420, "me", CogListener), File(388, "other", CogNoSetup),
          Dir(448, "me", <<>>)}
    ELSE IF n = NameDunder THEN {File(420, "me", PyShort)}
    ELSE IF n = UserPy THEN {File(384, "me", CogNoSetup)}
    ELSE IF n = NameSub
    THEN {Dir(448, "me", SubKids(File(384, "me", TextOnly), File(438, "me", TextOnly))),
          Dir(493, "me", SubKids(File(388, "other", TextOnly), File(438, "me", TextOnly))),
          Dir(192, "other", SubKids(File(384, "me", TextOnly), File(420, "me", TextOnly))),
          Dir(448, "me", SubKids(Dir(448, "me", SubKids(File(384, "me", TextOnly),
                                                         File(420, "me", TextOnly))),
                                 File(384, "me", TextOnly)))}
    ELSE {}

InitNames == {InitPy, NameA, AddPy(NameA), NameDunder, UserPy, NameSub}

InitKids ==
    UNION {{f \in [S -> UNION {Variants(n) : n \in S}] : \A n \in S : f[n] \in Variants(n)} :
              S \in {T \in SUBSET InitNames : Cardinality(T) <= MaxInitEntries}}

\* The plugin directory as found: 0o755, 0o700, 0o555 (not writable) or
\* 0o300 (not listable), owned by the caller.
InitCogsDirs == {Dir(m, "me", k) : m \in {493, 448, 365, 192}, k \in InitKids}

InitWorlds ==
    {[cogs |-> c, bak |-> Absent] : c \in InitCogsDirs \cup {Absent}}
    \cup {[cogs |-> File(420, "me", c), bak |-> b] :
              c \in {PyShort, TextOnly},
              b \in {Absent, File(384, "me", CogListener), Dir(493, "me", <<>>)}}

\* 0o022 and 0o077
Umasks == {18, 63}

Init ==
    /\ \E w \in InitWorlds :
          /\ cogs = w.cogs
          /\ bak = w.bak
          /\ start = w
          /\ prev = w
    /\ umask \in Umasks
    /\ log = {}
    /\ pc = "ensure_cogs_directory"
    /\ crash = ""
    /\ run = 1

----------------------------------------------------------------------------
(* main()                                                                  *)

World == [cogs |-> cogs, bak |-> bak]

\* The step of main() that ran r in the directory: on to the step next, or
\* out of main() with the exception.
Outcome(r, next) ==
    /\ cogs' = r.dir
    /\ log' = log \cup r.log
    /\ crash' = r.crash
    /\ pc' = IF r.crash # "" THEN "crashed" ELSE next
    /\ prev' = World
    /\ UNCHANGED <<bak, run, umask, start>>

EnsureCogsDirectory ==
    /\ pc = "ensure_cogs_directory"
    /\ LET r == EnsureCogsDirectoryOf(cogs, bak, umask)
       IN  /\ cogs' = r.cogs
           /\ bak' = r.bak
           /\ log' = log \cup r.log
           /\ crash' = r.crash
           /\ pc' = IF r.crash # "" THEN "crashed" ELSE "ensure_python_files"
    /\ prev' = World
    /\ UNCHANGED <<run, umask, start>>

EnsurePythonFiles ==
    /\ pc = "ensure_python_files"
    /\ \E r \in EnsurePythonFilesOf(cogs, umask) : Outcome(r, "fix_permissions")

FixPermissions ==
    /\ pc = "fix_permissions"
    /\ \E r \in FixPermissionsOf(cogs, <<"cogs">>) :
          Outcome([dir |-> r.dir, log |-> r.log, crash |-> ""], "copy_existing_cogs")

CopyExistingCogs ==
    /\ pc = "copy_existing_cogs"
    /\ Outcome(CopyExistingCogsOf(cogs, umask), "verify_cog_files")

VerifyCogFiles ==
    /\ pc = "verify_cog_files"
    /\ Outcome(VerifyCogFilesOf(cogs), "create_sample_cog")

\* create_sample_cog, then the closing log line and the "Next steps" lines
CreateSampleCog ==
    /\ pc = "create_sample_cog"
    /\ Outcome(CreateSampleCogOf(cogs, umask), "done")

\* The script is started again on what the first run left.
SecondRun ==
    /\ pc = "done"
    /\ run = 1
    /\ run' = 2
    /\ pc' = "ensure_cogs_directory"
    /\ log' = {}
    /\ prev' = World
    /\ UNCHANGED <<cogs, bak, crash, umask, start>>

Next ==
    \/ EnsureCogsDirectory
    \/ EnsurePythonFiles
    \/ FixPermissions
    \/ CopyExistingCogs
    \/ VerifyCogFiles
    \/ CreateSampleCog
    \/ SecondRun

Spec == Init /\ [][Next]_vars

----------------------------------------------------------------------------
(* The properties checked.  prev is the filesystem before the step that    *)
(* has just run, so "after step X" is the state whose pc names the step    *)
(* after X.                                                                *)

AfterBootstrap == pc = "ensure_python_files"
AfterClassifier == pc = "fix_permissions"
AfterNormalizer == pc = "copy_existing_cogs"
AfterProvisioning == pc = "verify_cog_files"
AfterLinter == pc = "create_sample_cog"
RunComplete == pc = "done"

\* The text holds an import marker and a def or class marker.
HasMarkers(c) == Contains(c, MImport) /\ (Contains(c, MDef) \/ Contains(c, MClass))

\* The first line of the text with 'class' and '(commands.Cog)', <<>> if none
FirstClassLine(c) ==
    LET lines == Split(c, "\n")
        hits == {i \in 1..Len(lines) :
                    Contains(lines[i], MClass) /\ Contains(lines[i], MCogBase)}
    IN  IF hits = {} THEN <<>>
        ELSE lines[CHOOSE i \in hits : \A j \in hits : i <= j]

\* The identifier between the class keyword and the opening parenthesis
NameBetween(line) ==
    LET c == CHOOSE i \in 1..Len(line) : line[i] = "class" /\ \A j \in 1..(i - 1) : line[j] # "class"
        p == CHOOSE i \in (c + 1)..Len(line) : line[i] = "(" /\ \A j \in (c + 1)..(i - 1) : line[j] # "("
    IN  SelectSeq(SubSeq(line, c + 1, p - 1), LAMBDA t : ~IsSpace(t))

ClassNameOf(c) == IF FirstClassLine(c) = <<>> THEN <<>> ELSE NameBetween(FirstClassLine(c))

\* A top-level plugin file with a class-marker line and no entry point
NeedsSetup(n, e) ==
    /\ e.kind = "file"
    /\ EndsWithPy(n)
    /\ ~StartsWithDunder(n)
    /\ FirstClassLine(e.content) # <<>>
    /\ ~Contains(e.content, MSetup)

(* C1: a second run of main on what the first run left changes nothing:    *)
(* no step of the second run renames an entry, changes a mode or changes a *)
(* file's content.                                                         *)
C1_SecondRunIsNoOp == run = 2 => World = prev

RECURSIVE Normalized(_)
Normalized(e) ==
    /\ ChmodAllowed(e) => e.mode = (IF e.kind = "dir" THEN DirMode ELSE FileMode)
    /\ (e.kind = "dir" /\ CanRead(e)) => \A n \in DOMAIN e.kids : Normalized(e.kids[n])

(* C2: after fix_permissions, a failed chmod or a failed listing has       *)
(* stopped nothing else: every entry whose own mode can be changed and     *)
(* whose directory can be listed has its normalized mode, 0755 or 0644.    *)
C2_FailureIsolation == AfterNormalizer => Normalized(cogs)

(* C3 as claimed: after the rename loop, every regular file F of the       *)
(* plugin directory whose content holds an import marker and a def or      *)
(* class marker and whose name does not end in '.py' is gone and F + '.py' *)
(* exists.                                                                 *)
C3_EveryPythonFileRenamed ==
    AfterClassifier =>
        \A F \in DOMAIN prev.cogs.kids :
            (/\ prev.cogs.kids[F].kind = "file"
             /\ ~EndsWithPy(F)
             /\ HasMarkers(prev.cogs.kids[F].content))
            => (Exists(cogs, AddPy(F)) /\ ~Exists(cogs, F))

\* The case of C3 as amended: the name is not exempt, the markers are in the
\* first 500 characters, and the rename cannot fail.
C3_Case(F) ==
    /\ prev.cogs.kids[F].kind = "file"
    /\ ~EndsWithPy(F)
    /\ ~StartsWithDunder(F)
    /\ HasMarkers(ReadChars(DecodeIgnore(prev.cogs.kids[F].content), ReadLimit))
    /\ CanWrite(prev.cogs)
    /\ ~(Exists(prev.cogs, AddPy(F)) /\ prev.cogs.kids[AddPy(F)].kind = "dir")

(* C3 amended: when ensure_python_files returns, every regular file F      *)
(* whose name neither starts with '__' nor ends in '.py', whose first 500  *)
(* characters hold the markers and whose rename does not fail, is gone and *)
(* F + '.py' is that file.                                                 *)
C3_ClassifiedFileRenamed ==
    AfterClassifier =>
        \A F \in DOMAIN prev.cogs.kids :
            C3_Case(F) => /\ Exists(cogs, AddPy(F))
                          /\ cogs.kids[AddPy(F)] = prev.cogs.kids[F]
                          /\ ~Exists(cogs, F)

C3_Witness ==
    /\ AfterClassifier
    /\ \E F \in DOMAIN prev.cogs.kids :
          C3_Case(F) /\ Exists(cogs, AddPy(F)) /\ ~Exists(cogs, F)

\* The linter leaves a file that has an entry point as it is.
NoSecondEntryPoint ==
    \A n \in DOMAIN prev.cogs.kids :
        Contains(prev.cogs.kids[n].content, MSetup) => cogs.kids[n] = prev.cogs.kids[n]

\* The file n holds one entry point, the block for its class name, at its end.
Repaired(n) ==
    /\ CountOf(cogs.kids[n].content, MSetup) = 1
    /\ cogs.kids[n].content =
           prev.cogs.kids[n].content \o SetupBlock(ClassNameOf(prev.cogs.kids[n].content))

C4_Case(n) ==
    /\ NeedsSetup(n, prev.cogs.kids[n])
    /\ CanRead(prev.cogs.kids[n])
    /\ CanWrite(prev.cogs.kids[n])
    /\ Decodable(prev.cogs.kids[n].content)
    /\ ClassNameOf(prev.cogs.kids[n].content) # <<>>

PerFileCalls == {"open", "read", "rename", "append"}

(* C5: no failure on an individual file in the classifier or the linter    *)
(* ends the run: main is never left by an exception of a per-file call.    *)
C5_PerFileFailureNeverFatal == pc = "crashed" => crash \notin PerFileCalls

RECURSIVE DirsNormalized(_)
DirsNormalized(e) ==
    /\ ChmodAllowed(e) => e.mode = DirMode
    /\ CanRead(e) => \A n \in DOMAIN e.kids :
                         e.kids[n].kind = "dir" => DirsNormalized(e.kids[n])

(* C6: after a complete run the plugin directory and the directories under *)
(* it have mode 0755 and every regular file directly in the plugin         *)
(* directory has mode 0644 (of the entries whose mode the caller may       *)
(* change), the files the run wrote included.                              *)
C6_PermissionInvariant ==
    RunComplete =>
        /\ DirsNormalized(cogs)
        /\ \A n \in DOMAIN cogs.kids :
               (cogs.kids[n].kind = "file" /\ ChmodAllowed(cogs.kids[n]))
               => cogs.kids[n].mode = FileMode

(* C7: after ensure_cogs_directory returns, the path is a directory; a     *)
(* file that was at the path is at cogs.bak, as it was; a directory that   *)
(* was at the path is unchanged, with its entries.                         *)
C7_Bootstrap ==
    AfterBootstrap =>
        /\ cogs.kind = "dir"
        /\ prev.cogs.kind = "file" => bak = prev.cogs
        /\ prev.cogs.kind = "dir" => (cogs = prev.cogs /\ bak = prev.bak)

C7_Witness ==
    /\ AfterBootstrap
    /\ prev.cogs.kind = "file"
    /\ prev.bak.kind = "file"
    /\ cogs.kind = "dir"
    /\ bak.content = prev.cogs.content

\* No class name can be taken from the text.
NoClassName(c) == FirstClassLine(c) = <<>> \/ ClassNameOf(c) = <<>>

(* C8: the linter only appends: every entry is as before but for the       *)
(* content of a file, of which the old content is a prefix and to which    *)
(* one entry-point block was added; a file with the entry-point marker,    *)
(* or without the plugin-class marker, or without a class name to extract, *)
(* is unchanged.                                                           *)
C8_AppendOnly ==
    AfterLinter =>
        /\ DOMAIN cogs.kids = DOMAIN prev.cogs.kids
        /\ \A n \in DOMAIN prev.cogs.kids :
              LET old == prev.cogs.kids[n]
                  new == cogs.kids[n]
                  added == SubSeq(new.content, Len(old.content) + 1, Len(new.content))
              IN  /\ [new EXCEPT !.content = old.content] = old
                  /\ IsPrefix(old.content, new.content)
                  /\ added # <<>> => (IsPrefix(<<"\n", "\n">> \o MSetup, added)
                                      /\ CountOf(added, MSetup) = 1)
                  /\ (\/ Contains(old.content, MSetup)
                      \/ ~Contains(old.content, MCog)
                      \/ NoClassName(old.content)) => new = old

C8_Witness ==
    /\ AfterLinter
    /\ \E n \in DOMAIN prev.cogs.kids :
          /\ Len(cogs.kids[n].content) > Len(prev.cogs.kids[n].content)
          /\ IsPrefix(prev.cogs.kids[n].content, cogs.kids[n].content)

\* The payload copy_existing_cogs writes under the name d
DefaultPayload(d) == IF d = UserPy THEN UserPayload ELSE AdminPayload

(* C9: copy_existing_cogs writes each default file only when absent and    *)
(* leaves an existing one as it is; the sample file is written only if no  *)
(* '.py' entry not starting with '__' is there after that; from an empty   *)
(* plugin directory a full run ends with the package marker and the two    *)
(* default files and nothing else.                                         *)
C9_Provisioning ==
    /\ AfterProvisioning =>
          \A n \in DOMAIN cogs.kids :
              IF Exists(prev.cogs, n) THEN cogs.kids[n] = prev.cogs.kids[n]
              ELSE n \in {UserPy, AdminPy} /\ cogs.kids[n].content = DefaultPayload(n)
    /\ AfterProvisioning => (Exists(cogs, UserPy) /\ Exists(cogs, AdminPy))
    /\ RunComplete =>
          \/ cogs = prev.cogs
          \/ /\ \A n \in DOMAIN prev.cogs.kids : ~(EndsWithPy(n) /\ ~StartsWithDunder(n))
             /\ DOMAIN cogs.kids = DOMAIN prev.cogs.kids \cup {SamplePy}
    /\ (RunComplete /\ start.cogs.kind = "dir" /\ DOMAIN start.cogs.kids = {})
          => DOMAIN cogs.kids = {InitPy, UserPy, AdminPy}

C9_Witness ==
    /\ RunComplete
    /\ run = 1
    /\ start.cogs.kind = "dir"
    /\ DOMAIN start.cogs.kids = {}
    /\ DOMAIN cogs.kids = {InitPy, UserPy, AdminPy}
    /\ cogs.kids[UserPy].content = UserPayload

(* C10: the rename loop loses no content: what a file of the plugin        *)
(* directory held before the loop is held afterwards by the file of that   *)
(* name or of that name plus '.py'.                                        *)
C10_NoContentLost ==
    AfterClassifier =>
        \A n \in DOMAIN prev.cogs.kids :
            prev.cogs.kids[n].kind = "file" =>
                \/ Exists(cogs, n) /\ cogs.kids[n].content = prev.cogs.kids[n].content
                \/ /\ Exists(cogs, AddPy(n))
                   /\ cogs.kids[AddPy(n)].content = prev.cogs.kids[n].content

====
